---- MODULE Spec2Model ----
(***************************************************************************)
(* Notification service: the RabbitMQ connection manager, the consumer     *)
(* with its processing scope, and the dispatcher's bounded fan-out.        *)
(*                                                                         *)
(* The program runs on one asyncio event loop: the code between two awaits *)
(* is atomic.  Every action below is one such segment of one task: it      *)
(* starts where an awaited broker operation (or lock, or semaphore)        *)
(* completes and runs to the next await that suspends.  A call of a        *)
(* coroutine that returns without suspending stays inside the segment.     *)
(***************************************************************************)
EXTENDS Integers, Sequences, FiniteSets, TLC

\* ------------------------------------------------------------------ bounds
MaxOps == 3          \* manager operations invoked in one behaviour of SpecConn
MaxLoss == 1         \* unexpected connection losses in one behaviour
MaxMsgs == 2         \* messages that reach the queue
MaxDeliveries == 2   \* deliveries the broker makes, redeliveries included
MaxShutdownMsgs == 1         \* the same two, in the behaviours that shut down
MaxShutdownDeliveries == 2

Tasks == {"t1", "t2", "t3"}

\* Settings.worker_concurrency and Settings.rabbitmq_prefetch_count, as the
\* environment configures them (the defaults are 4 and 64)
WorkerConcurrency == 2
PrefetchCount == 2

VARIABLES
    \* RabbitMQConnectionManager fields (0 is None, otherwise an object id)
    connection, channel, exchange, queue,
    lockQ,            \* asyncio.Lock: the holder (head) and the waiters, FIFO
    \* the broker-side objects the library handles stand for
    conns,            \* conns[c]: "open" | "closing" | "closed" | "lost"
    chans,            \* chans[ch]: [st, conn]
    exchs,            \* exchs[e]: the channel the exchange handle was declared on
    queues,           \* queues[q]: [chan, binds]
    closingIsClosed,  \* what is_closed answers while a close() is in progress,
                      \* once the first close() has shown it
    \* the tasks of the event loop
    stk,              \* stk[t]: the frames of task t, innermost first
    op,               \* op[t]: the operation task t was started for, and its number
    out,              \* out[t]: how that operation ended
    opsLeft, lossLeft,
    published,        \* messages the broker accepted through publish()
    dirty,            \* something other than close() ran during or after the last close()
    \* NotificationConsumer fields
    started,          \* self._started
    consumerTag,      \* self._queue_consumer_tag (0 is None)
    consumerQueue,    \* self._queue (0 is None)
    requeueOnError,   \* self._requeue_on_error
    \* the broker's side of the queue
    subs,             \* the subscriptions: [tag, chan, noAck]
    msgs,             \* msgs[m]: [p, loc, chan], loc "ready" | "unacked" | "acked" | "dropped"
    \* the message handlers and the dispatcher
    dels,             \* dels[d]: one call of _handle_message
    sends,            \* sends[i]: one call of _send
    sem, semQ,        \* asyncio.Semaphore: free permits and the waiters, FIFO
    \* the HTTP side
    http,             \* http[t]: the request task t handles and what
                      \* prepare_message made of it
    prefetchCount,    \* settings.rabbitmq_prefetch_count, self._prefetch_count
    engine            \* NotificationRuleEngine: the table it was given and self._rules

vars == <<connection, channel, exchange, queue, lockQ, conns, chans, exchs,
          queues, closingIsClosed, stk, op, out, opsLeft, lossLeft, published,
          dirty, started, consumerTag, consumerQueue, requeueOnError, subs,
          msgs, dels, sends, sem, semQ, http,
          prefetchCount, engine>>

mgrFields == <<connection, channel, exchange, queue>>
objects == <<conns, chans, exchs, queues>>
consumerFields == <<started, consumerTag, consumerQueue>>
broker == <<subs, msgs>>
aside == <<requeueOnError, http, prefetchCount, engine>>
handling == <<aside, dels, sends, sem, semQ>>
counters == <<op, opsLeft, lossLeft, dirty>>
quiet == <<closingIsClosed, counters>>

\* ------------------------------------------------------------ frames
Fr(fn, pc, h, h2) == [fn |-> fn, pc |-> pc, h |-> h, h2 |-> h2]

NoOut == [kind |-> "none", val |-> 0]
Returned(v) == [kind |-> "ret", val |-> v]
Raised == [kind |-> "raise", val |-> 0]

\* What a task did in one segment: its frames s at the await it stops at (none
\* when its operation ended), how the operation ended, whether stop() ran its
\* last lines (consumer.py:55-57), and the queue start() stored in self._queue
\* (consumer.py:40; -1 when it stored none).
Did(s, o) == [s |-> s, o |-> o, stopped |-> FALSE, cq |-> -1]

\* the task is suspended with frames s
Susp(s) == Did(s, NoOut)

\* an exception nobody catches unwinds every frame of the task
Raise == Did(<<>>, Raised)

Top(t) == Head(stk[t])
Rest(t) == Tail(stk[t])
At(t, pc) == stk[t] # <<>> /\ Top(t).pc = pc

\* ------------------------------------------------------- is_closed
ConnIsClosed(c) ==
    conns[c] \in {"closed", "lost"} \/ (conns[c] = "closing" /\ closingIsClosed.conn)

ChanIsClosed(ch) ==
    chans[ch].st = "closed" \/ (chans[ch].st = "closing" /\ closingIsClosed.chan)

ConnAlive == connection # 0 /\ ~ConnIsClosed(connection)
ChanAlive == channel # 0 /\ ~ChanIsClosed(channel)

ChanOpen(ch) == ch # 0 /\ chans[ch].st = "open"

\* ------------------------------------------- calls that may not suspend
\* Ret(s, v): a callee returns v to the frames s; the caller runs on to its
\* next suspending await.
RECURSIVE Ret(_, _), CallConnect(_), GetChannelBody(_), CallGetChannel(_),
          CallGetExchange(_)
Ret(s, v) ==
    IF s = <<>> THEN Did(<<>>, Returned(v))
    ELSE LET f == Head(s)
             rest == Tail(s)
         IN CASE f.fn = "get_channel" ->
                    Susp(<<Fr("get_channel", "gc_channel", v, 0)>> \o rest)
              [] f.fn = "get_exchange" ->
                    IF v = 0 THEN Raise
                    ELSE Susp(<<Fr("get_exchange", "ge_declare", v, 0)>> \o rest)
              [] f.fn = "get_queue" /\ f.pc = "gq_get_channel" ->
                    IF v = 0 THEN Raise
                    ELSE Susp(<<Fr("get_queue", "gq_declare", v, 0)>> \o rest)
              [] f.fn = "get_queue" /\ f.pc = "gq_get_exchange" ->
                    Susp(<<Fr("get_queue", "gq_bind", f.h, v)>> \o rest)
              [] f.fn = "publish" ->
                    Susp(<<Fr("publish", "pb_publish", v, 0)>> \o rest)
              [] f.fn = "start" ->      \* consumer.py:39-41
                    IF v = 0 THEN [Raise EXCEPT !.cq = 0]
                    ELSE [Susp(<<Fr("start", "st_consume", v, 0)>> \o rest)
                             EXCEPT !.cq = v]
              [] f.fn = "stop" ->       \* consumer.py:54-57
                    [Ret(rest, 0) EXCEPT !.stopped = TRUE]
              [] f.fn = "lifespan" /\ f.pc = "ls_start" ->     \* main.py:23-24
                    CallGetExchange(<<Fr("pub_connect", "pc_get_exchange", 0, 0),
                                      Fr("lifespan", "ls_connect", 0, 0)>> \o rest)
              [] f.fn = "lifespan" /\ f.pc = "ls_connect" ->   \* main.py:26-27
                    Susp(<<Fr("lifespan", "ls_serving", 0, 0)>> \o rest)
              [] OTHER -> Ret(rest, v)

\* connect(): connection.py:41-49
CallConnect(s) ==
    IF ConnAlive THEN Ret(s, connection)
    ELSE Susp(<<Fr("connect", "co_connect", 0, 0)>> \o s)

\* get_channel() with the lock held: connection.py:54-57
GetChannelBody(s) ==
    IF ChanAlive THEN Ret(s, channel)
    ELSE CallConnect(<<Fr("get_channel", "gc_connect", 0, 0)>> \o s)

\* get_channel(): connection.py:51-53
CallGetChannel(s) ==
    IF lockQ # <<>> THEN Susp(<<Fr("get_channel", "gc_lock", 0, 0)>> \o s)
    ELSE GetChannelBody(s)

\* get_exchange(): connection.py:63-68
CallGetExchange(s) ==
    IF exchange # 0 THEN Ret(s, exchange)
    ELSE CallGetChannel(<<Fr("get_exchange", "ge_get_channel", 0, 0)>> \o s)

\* get_queue(): connection.py:77-82
CallGetQueue(s) ==
    IF queue # 0 THEN Ret(s, queue)
    ELSE CallGetChannel(<<Fr("get_queue", "gq_get_channel", 0, 0)>> \o s)

\* publish(): connection.py:93-95
CallPublish(s) == CallGetExchange(<<Fr("publish", "pb_get_exchange", 0, 0)>> \o s)

\* ----------------------------------------------------------- the lock
InLock(s) == \E i \in 1..Len(s) : s[i].fn = "get_channel"

Without(q, t) == SelectSeq(q, LAMBDA x : x # t)

\* `async with self._lock`: a task is in the queue exactly while it has a
\* get_channel frame; the head of the queue holds the lock.
LockAfter(t, s) ==
    IF InLock(s) /\ ~InLock(stk[t]) THEN Append(lockQ, t)
    ELSE IF ~InLock(s) /\ InLock(stk[t]) THEN Without(lockQ, t)
    ELSE lockQ

\* the task goes on with result r of a Call or Ret
Runs(t, r) ==
    /\ stk' = [stk EXCEPT ![t] = r.s]
    /\ out' = [out EXCEPT ![t] = r.o]
    /\ lockQ' = LockAfter(t, r.s)

Goes(t, r) ==
    /\ Runs(t, r)
    /\ started' = (started /\ ~r.stopped)
    /\ consumerTag' = IF r.stopped THEN 0 ELSE consumerTag
    /\ consumerQueue' = IF r.stopped THEN 0
                        ELSE IF r.cq >= 0 THEN r.cq ELSE consumerQueue

\* ------------------------------------------------------------ policy
\* the request side: NotificationRuleEngine and NotificationOrchestrator
MaxChannels == 3      \* longest channels list of a request
MaxRoles == 2         \* longest recipient_roles list of a request

DeliveryChannels == {"email", "sms", "push", "in_app"}
RoleTypes == {"issuer", "learner", "employer"}

\* an Optional[List[...]] field: None, or a list that may be empty
None == [some |-> FALSE, v |-> <<>>]
Some(v) == [some |-> TRUE, v |-> v]
Truthy(o) == o.some /\ o.v # <<>>

ListsUpTo(S, n) == UNION {[1..k -> S] : k \in 0..n}
OptLists(S, n) == {None} \cup {Some(v) : v \in ListsUpTo(S, n)}

Rules ==
    [e \in {"credential.issued", "credential.updated", "credential.revoked",
            "profile.viewed", "employer.requested_verification"} |->
        CASE e = "profile.viewed" ->
                [default_channels |-> <<"in_app">>, target_roles |-> <<"learner">>]
          [] e = "employer.requested_verification" ->
                [default_channels |-> <<"email", "in_app">>, target_roles |-> <<"issuer">>]
          [] OTHER ->
                [default_channels |-> <<"email", "in_app">>, target_roles |-> <<"learner">>]]

\* event types of the table, and some that are not in it
EventTypes ==
    DOMAIN Rules \cup {"unknown.event", "Credential.Issued", "credential",
                       "credential.issued.v2"}

Has(s, x) == \E i \in 1..Len(s) : s[i] = x

\* list(dict.fromkeys(s))
RECURSIVE Dedup(_)
Dedup(s) ==
    IF s = <<>> THEN <<>>
    ELSE LET r == Dedup(SubSeq(s, 1, Len(s) - 1))
             x == s[Len(s)]
         IN  IF Has(r, x) THEN r ELSE Append(r, x)

\* a rule looked up the way a case-insensitive or prefix match would
Fold(e) ==
    CASE e = "Credential.Issued" -> "credential.issued"
      [] e = "credential.issued.v2" -> "credential.issued"
      [] OTHER -> e

get_rule_folding(e) ==
    IF Fold(e) \in DOMAIN Rules THEN [some |-> TRUE, v |-> Rules[Fold(e)]]
    ELSE [some |-> FALSE, v |-> Rules["profile.viewed"]]

\* the rules argument of NotificationRuleEngine(): None, or a table
NoTable == [some |-> FALSE, v |-> Rules]

\* NotificationRuleEngine.__init__: self._rules = rules or DEFAULT_RULES
NotificationRuleEngine(given) ==
    [given |-> given,
     rules |-> IF given.some /\ DOMAIN given.v # {} THEN given.v ELSE Rules]

\* self._rules.get(event_type)
get_rule(e) ==
    IF e \in DOMAIN engine.rules THEN [some |-> TRUE, v |-> engine.rules[e]]
    ELSE [some |-> FALSE, v |-> Rules["profile.viewed"]]

\* channel resolution that asks the rule table first
resolve_channels_rule_first(request) ==
    LET rule == get_rule(request.event_type)
    IN  IF rule.some THEN rule.v.default_channels
        ELSE IF Truthy(request.channels) THEN Dedup(request.channels.v)
        ELSE <<"in_app">>

\* channel resolution with nothing to fall back on
resolve_channels_no_default(request) ==
    LET rule == get_rule(request.event_type)
    IN  IF Truthy(request.channels) THEN Dedup(request.channels.v)
        ELSE IF rule.some THEN rule.v.default_channels
        ELSE <<>>

resolve_channels(request) ==
    LET rule == get_rule(request.event_type)
    IN  IF Truthy(request.channels) THEN Dedup(request.channels.v)
        ELSE IF rule.some THEN rule.v.default_channels
        ELSE <<"in_app">>

\* role resolution that keeps the explicit list as it came
resolve_recipient_roles_verbatim(request) ==
    LET rule == get_rule(request.event_type)
    IN  IF Truthy(request.recipient_roles) THEN request.recipient_roles.v
        ELSE IF rule.some THEN rule.v.target_roles
        ELSE <<>>

\* role resolution that falls back on a role instead of on nothing
resolve_recipient_roles_defaulting(request) ==
    LET rule == get_rule(request.event_type)
    IN  IF Truthy(request.recipient_roles) THEN Dedup(request.recipient_roles.v)
        ELSE IF rule.some THEN rule.v.target_roles
        ELSE <<"learner">>

resolve_recipient_roles(request) ==
    LET rule == get_rule(request.event_type)
    IN  IF Truthy(request.recipient_roles) THEN Dedup(request.recipient_roles.v)
        ELSE IF rule.some THEN rule.v.target_roles
        ELSE <<>>

\* NotificationMessage(...): validate_roles raises ValueError
validate_roles(message) ==
    IF message.recipient_roles = <<>> THEN [err |-> "value_error", message |-> message]
    ELSE [err |-> "none", message |-> message]

\* NotificationRequest.to_message
to_message(request, channels, recipient_roles) ==
    LET resolved_channels ==
            IF channels # <<>> THEN Some(channels)
            ELSE IF Truthy(request.channels) THEN Some(request.channels.v)
            ELSE None
        resolved_roles ==
            IF recipient_roles # <<>> THEN recipient_roles
            ELSE IF Truthy(request.recipient_roles) THEN request.recipient_roles.v
            ELSE <<>>
    IN  validate_roles([event_type |-> request.event_type,
                        recipient_roles |-> resolved_roles,
                        channels |-> resolved_channels,
                        metadata |-> request.metadata])

NoMessage == [event_type |-> "", recipient_roles |-> <<>>, channels |-> None,
              metadata |-> "plain"]

\* NotificationOrchestrator.prepare_message: what it resolved, and the message
\* it returns or the ValueError it raises
prepare_message(request) ==
    LET channels == resolve_channels(request)
        recipient_roles == resolve_recipient_roles(request)
        made == to_message(request, channels, recipient_roles)
        message == IF Truthy(made.message.channels) THEN made.message
                   ELSE [made.message EXCEPT !.channels = Some(<<"in_app">>)]
    IN  IF recipient_roles = <<>>
        THEN [err |-> "value_error", message |-> NoMessage,
              channels |-> channels, recipient_roles |-> recipient_roles]
        ELSE IF made.err # "none"
        THEN [err |-> made.err, message |-> NoMessage,
              channels |-> channels, recipient_roles |-> recipient_roles]
        ELSE [err |-> "none", message |-> message,
              channels |-> channels, recipient_roles |-> recipient_roles]

\* http[t] before task t has a request
NoRequest ==
    [request |-> [event_type |-> "", channels |-> None, recipient_roles |-> None,
                  metadata |-> "plain"],
     step |-> "none", err |-> "none", message |-> NoMessage,
     channels |-> <<>>, recipient_roles |-> <<>>]

\* the body of a message on the wire: what is not JSON, and a JSON object
\* with its recipient_roles and channels (absent or null channels is the
\* empty list)
BadJson == [json |-> FALSE, roles |-> <<>>, channels |-> <<>>]
Json(roles, channels) == [json |-> TRUE, roles |-> roles, channels |-> channels]

\* message.model_dump_json(), publisher.py:41
Wire(message) == Json(message.recipient_roles, message.channels.v)

\* ------------------------------------------------- manager: resumptions
\* connect_robust() completed: connection.py:47-49
ConnectDone(t) ==
    /\ At(t, "co_connect")
    /\ conns' = Append(conns, "open")
    /\ connection' = Len(conns) + 1
    /\ Goes(t, Ret(Rest(t), Len(conns) + 1))
    /\ UNCHANGED <<channel, exchange, queue, chans, exchs, queues>>
    /\ UNCHANGED <<quiet, published, broker, handling>>

\* the lock was handed to the waiting task: connection.py:53-57
LockAcquired(t) ==
    /\ At(t, "gc_lock")
    /\ Head(lockQ) = t
    /\ Goes(t, GetChannelBody(Rest(t)))
    /\ UNCHANGED <<mgrFields, objects>>
    /\ UNCHANGED <<quiet, published, broker, handling>>

\* connection.channel() completed: connection.py:58-59
ChannelOpened(t) ==
    /\ At(t, "gc_channel")
    /\ IF conns[Top(t).h] = "open"
       THEN /\ chans' = Append(chans, [st |-> "open", conn |-> Top(t).h])
            /\ channel' = Len(chans) + 1
            /\ Goes(t, Susp(<<Fr("get_channel", "gc_qos", Len(chans) + 1, 0)>>
                            \o Rest(t)))
       ELSE /\ UNCHANGED <<chans, channel>>
            /\ Goes(t, Raise)
    /\ UNCHANGED <<connection, exchange, queue, conns, exchs, queues>>
    /\ UNCHANGED <<quiet, published, broker, handling>>

\* set_qos() completed: connection.py:59-61
QosDone(t) ==
    /\ At(t, "gc_qos")
    /\ IF ChanOpen(Top(t).h)
       THEN Goes(t, Ret(Rest(t), channel))
       ELSE Goes(t, Raise)
    /\ UNCHANGED <<mgrFields, objects>>
    /\ UNCHANGED <<quiet, published, broker, handling>>

\* declare_exchange() completed: connection.py:69-75
ExchangeDeclared(t) ==
    /\ At(t, "ge_declare")
    /\ IF ChanOpen(Top(t).h)
       THEN /\ exchs' = Append(exchs, Top(t).h)
            /\ exchange' = Len(exchs) + 1
            /\ Goes(t, Ret(Rest(t), Len(exchs) + 1))
       ELSE /\ UNCHANGED <<exchs, exchange>>
            /\ Goes(t, Raise)
    /\ UNCHANGED <<connection, channel, queue, conns, chans, queues>>
    /\ UNCHANGED <<quiet, published, broker, handling>>

\* declare_queue() completed: connection.py:83-84
QueueDeclared(t) ==
    /\ At(t, "gq_declare")
    /\ IF ChanOpen(Top(t).h)
       THEN /\ queues' = Append(queues, [chan |-> Top(t).h, binds |-> 0])
            /\ queue' = Len(queues) + 1
            /\ Goes(t, CallGetExchange(
                        <<Fr("get_queue", "gq_get_exchange", Len(queues) + 1, 0)>>
                        \o Rest(t)))
       ELSE /\ UNCHANGED <<queues, queue>>
            /\ Goes(t, Raise)
    /\ UNCHANGED <<connection, channel, exchange, conns, chans, exchs>>
    /\ UNCHANGED <<quiet, published, broker, handling>>

\* queue.bind() completed: connection.py:84-91
QueueBound(t) ==
    /\ At(t, "gq_bind")
    /\ IF ChanOpen(queues[Top(t).h].chan)
       THEN /\ queues' = [queues EXCEPT ![Top(t).h].binds = @ + 1]
            /\ Goes(t, Ret(Rest(t), queue))
       ELSE /\ UNCHANGED queues
            /\ Goes(t, Raise)
    /\ UNCHANGED <<mgrFields, conns, chans, exchs>>
    /\ UNCHANGED <<quiet, published, broker, handling>>

\* exchange.publish() completed: connection.py:95-96
Published(t) ==
    /\ At(t, "pb_publish")
    /\ IF ChanOpen(exchs[Top(t).h])
       THEN /\ published' = published + 1
            /\ msgs' = IF http[t].step = "publish" /\ Len(queues) > 0
                       THEN Append(msgs, [p |-> Wire(http[t].message),
                                          loc |-> "ready", chan |-> 0])
                       ELSE msgs
            /\ Goes(t, Ret(Rest(t), 0))
       ELSE /\ UNCHANGED <<published, msgs>>
            /\ Goes(t, Raise)
    /\ UNCHANGED <<mgrFields, objects>>
    /\ UNCHANGED <<quiet, subs, handling>>

\* ------------------------------------------------------ manager: close()
\* close() from `self._queue = None` on: connection.py:105-110
CloseConnection(t, s) ==
    /\ queue' = 0
    /\ IF ConnAlive
       THEN /\ conns' = [conns EXCEPT ![connection] = "closing"]
            /\ Goes(t, Susp(<<Fr("close", "cl_connection", connection, 0)>> \o s))
       ELSE /\ UNCHANGED conns
            /\ Goes(t, Ret(s, 0))

\* What the library answers to is_closed for a connection and for a channel
\* during their close() is fixed, and not known from this code: either
\* answer is possible for each. Nothing reads it before the first close().
LibraryShown ==
    closingIsClosed' \in IF closingIsClosed.set THEN {closingIsClosed}
                         ELSE [set : {TRUE}, conn : BOOLEAN, chan : BOOLEAN]

\* close() entered: connection.py:98-101
CloseEnter(t, s) ==
    /\ LibraryShown
    /\ IF ChanAlive
       THEN /\ chans' = [chans EXCEPT ![channel].st = "closing"]
            /\ Goes(t, Susp(<<Fr("close", "cl_channel", channel, 0)>> \o s))
            /\ UNCHANGED <<channel, queue, conns>>
       ELSE /\ UNCHANGED <<channel, chans>>
            /\ CloseConnection(t, s)

\* the broker drops the subscriptions of closed channels and requeues what
\* was delivered on them and not acknowledged
SubsOn(open) == {x \in subs : open[x.chan].st = "open"}

MsgsOn(open) ==
    [m \in DOMAIN msgs |->
        IF msgs[m].loc = "unacked" /\ open[msgs[m].chan].st # "open"
        THEN [msgs[m] EXCEPT !.loc = "ready"]
        ELSE msgs[m]]

\* channel.close() completed: connection.py:101-109
ChannelClosed(t) ==
    /\ At(t, "cl_channel")
    /\ chans' = [chans EXCEPT ![Top(t).h].st = "closed"]
    /\ subs' = SubsOn(chans')
    /\ msgs' = MsgsOn(chans')
    /\ channel' = 0
    /\ CloseConnection(t, Rest(t))
    /\ UNCHANGED <<connection, exchange, exchs, queues>>
    /\ UNCHANGED <<quiet, published, handling>>

\* the channels of a connection end with it
ChansWithout(c) ==
    [ch \in DOMAIN chans |->
        IF chans[ch].conn = c THEN [chans[ch] EXCEPT !.st = "closed"] ELSE chans[ch]]

\* connection.close() completed: connection.py:108-110
ConnectionClosed(t) ==
    /\ At(t, "cl_connection")
    /\ conns' = [conns EXCEPT ![Top(t).h] = "closed"]
    /\ chans' = ChansWithout(Top(t).h)
    /\ subs' = SubsOn(chans')
    /\ msgs' = MsgsOn(chans')
    /\ connection' = 0
    /\ Goes(t, Ret(Rest(t), 0))
    /\ UNCHANGED <<channel, exchange, queue, exchs, queues>>
    /\ UNCHANGED <<quiet, published, handling>>

\* the broker or the network ends a connection: _on_connection_closed only
\* logs, connection.py:112-117
ConnectionLost ==
    /\ lossLeft > 0
    /\ \E c \in DOMAIN conns :
        /\ conns[c] = "open"
        /\ conns' = [conns EXCEPT ![c] = "lost"]
        /\ chans' = ChansWithout(c)
    /\ subs' = SubsOn(chans')
    /\ msgs' = MsgsOn(chans')
    /\ lossLeft' = lossLeft - 1
    /\ UNCHANGED <<mgrFields, lockQ, exchs, queues, closingIsClosed>>
    /\ UNCHANGED <<stk, op, out, opsLeft, published, dirty>>
    /\ UNCHANGED <<consumerFields, handling>>

\* --------------------------------------- callers of the manager's methods
Idle(t) == stk[t] = <<>>

Begins(t, name) ==
    /\ Idle(t)
    /\ opsLeft > 0
    /\ opsLeft' = opsLeft - 1
    /\ op' = [op EXCEPT ![t] = [name |-> name, n |-> MaxOps - opsLeft + 1]]
    /\ dirty' = IF name # "close" THEN TRUE
                ELSE IF \A u \in Tasks : Idle(u) THEN FALSE
                ELSE IF \A u \in Tasks : Idle(u) \/ op[u].name = "close" THEN dirty
                ELSE TRUE
    /\ UNCHANGED <<lossLeft, published, broker, handling>>

InvokeConnect(t) ==
    /\ Begins(t, "connect")
    /\ UNCHANGED closingIsClosed
    /\ Goes(t, CallConnect(<<>>))
    /\ UNCHANGED <<mgrFields, objects>>

InvokeGetChannel(t) ==
    /\ Begins(t, "get_channel")
    /\ UNCHANGED closingIsClosed
    /\ Goes(t, CallGetChannel(<<>>))
    /\ UNCHANGED <<mgrFields, objects>>

InvokeGetExchange(t) ==
    /\ Begins(t, "get_exchange")
    /\ UNCHANGED closingIsClosed
    /\ Goes(t, CallGetExchange(<<>>))
    /\ UNCHANGED <<mgrFields, objects>>

InvokeGetQueue(t) ==
    /\ Begins(t, "get_queue")
    /\ UNCHANGED closingIsClosed
    /\ Goes(t, CallGetQueue(<<>>))
    /\ UNCHANGED <<mgrFields, objects>>

InvokePublish(t) ==
    /\ Begins(t, "publish")
    /\ UNCHANGED closingIsClosed
    /\ Goes(t, CallPublish(<<>>))
    /\ UNCHANGED <<mgrFields, objects>>

InvokeClose(t) ==
    /\ Begins(t, "close")
    /\ CloseEnter(t, <<>>)
    /\ UNCHANGED <<connection, exchange, exchs, queues>>

\* ------------------------------------------------------------ behaviours
InitCommon ==
    /\ connection = 0 /\ channel = 0 /\ exchange = 0 /\ queue = 0
    /\ lockQ = <<>>
    /\ conns = <<>> /\ chans = <<>> /\ exchs = <<>> /\ queues = <<>>
    /\ stk = [t \in Tasks |-> <<>>]
    /\ op = [t \in Tasks |-> [name |-> "none", n |-> 0]]
    /\ out = [t \in Tasks |-> NoOut]
    /\ opsLeft = MaxOps
    /\ lossLeft = MaxLoss
    /\ published = 0
    /\ dirty = TRUE
    /\ started = FALSE /\ consumerTag = 0 /\ consumerQueue = 0
    /\ subs = {}
    /\ msgs = <<>>
    /\ dels = <<>>
    /\ sends = <<>>
    /\ sem = WorkerConcurrency
    /\ semQ = <<>>

\* the manager on its own: the consumer's flag plays no part
InitConn ==
    /\ InitCommon
    /\ closingIsClosed = [set |-> FALSE, conn |-> FALSE, chan |-> FALSE]
    /\ requeueOnError = TRUE
    /\ http = [t \in Tasks |-> NoRequest]
    /\ prefetchCount = PrefetchCount
    /\ engine = NotificationRuleEngine(NoTable)

ManagerStep(t) ==
    \/ ConnectDone(t)
    \/ LockAcquired(t)
    \/ ChannelOpened(t)
    \/ QosDone(t)
    \/ ExchangeDeclared(t)
    \/ QueueDeclared(t)
    \/ QueueBound(t)
    \/ Published(t)
    \/ ChannelClosed(t)
    \/ ConnectionClosed(t)

NextConn ==
    \/ \E t \in Tasks : ManagerStep(t)
    \/ \E t \in Tasks : InvokeConnect(t)
    \/ \E t \in Tasks : InvokeGetChannel(t)
    \/ \E t \in Tasks : InvokeGetExchange(t)
    \/ \E t \in Tasks : InvokeGetQueue(t)
    \/ \E t \in Tasks : InvokePublish(t)
    \/ \E t \in Tasks : InvokeClose(t)
    \/ ConnectionLost

SpecConn == InitConn /\ [][NextConn]_vars

\* the same callers without a direct connect(): in the program connect() is
\* called by get_channel() alone, connection.py:57
NextShared ==
    \/ \E t \in Tasks : ManagerStep(t)
    \/ \E t \in Tasks : InvokeGetChannel(t)
    \/ \E t \in Tasks : InvokeGetExchange(t)
    \/ \E t \in Tasks : InvokeGetQueue(t)
    \/ \E t \in Tasks : InvokePublish(t)
    \/ \E t \in Tasks : InvokeClose(t)
    \/ ConnectionLost

SpecShared == InitConn /\ [][NextShared]_vars

\* ------------------------------------------------------------ the service
idleManager == <<mgrFields, objects, lockQ, published, closingIsClosed,
                 opsLeft, lossLeft, dirty>>
callers == <<stk, op, out>>

\* the payloads other publishers and this service put on the queue
Payloads ==
    {BadJson, Json(<<>>, <<"email">>), Json(<<"learner">>, <<>>),
     Json(<<"learner">>, <<"email">>), Json(<<"learner">>, <<"email", "sms">>)}

\* json.loads and NotificationMessage.model_validate, consumer.py:63-64
Decode(p) ==
    IF ~p.json THEN "decode_error"
    ELSE IF p.roles = <<>> THEN "invalid"
    ELSE "ok"

\* notification.channels or [DeliveryChannel.EMAIL], dispatcher.py:19
Channels(p) == IF p.channels # <<>> THEN p.channels ELSE <<"email">>

\* a message reaches the queue, from this service or another publisher
Enqueue(p) ==
    /\ Len(queues) > 0
    /\ Len(msgs) < MaxMsgs
    /\ msgs' = Append(msgs, [p |-> p, loc |-> "ready", chan |-> 0])
    /\ UNCHANGED <<idleManager, callers, consumerFields, subs, handling>>

Unacked(ch) == {m \in DOMAIN msgs : msgs[m].loc = "unacked" /\ msgs[m].chan = ch}

\* the broker hands the oldest ready message to a subscription, within the
\* channel's prefetch window (set_qos, connection.py:59); aio_pika schedules
\* _handle_message for it
Deliver(m) ==
    /\ Len(dels) < MaxDeliveries
    /\ msgs[m].loc = "ready"
    /\ \A k \in 1..(m - 1) : msgs[k].loc # "ready"
    /\ \E x \in subs :
        /\ chans[x.chan].st = "open"
        /\ prefetchCount = 0 \/ Cardinality(Unacked(x.chan)) < prefetchCount
        /\ msgs' = [msgs EXCEPT ![m] =
                       [@ EXCEPT !.loc = IF x.noAck THEN "acked" ELSE "unacked",
                                 !.chan = x.chan]]
        /\ dels' = Append(dels, [m |-> m, chan |-> x.chan, st |-> "new",
                                 result |-> "none", outcome |-> "none",
                                 pending |-> 0])
    /\ UNCHANGED <<idleManager, callers, consumerFields, subs>>
    /\ UNCHANGED <<aside, sends, sem, semQ>>

SendsOf(d) == {i \in DOMAIN sends : sends[i].d = d}

\* the processing scope without the flag: requeue is False unless it is given
ExitOutcomeNoFlag(d, result) ==
    IF chans[dels[d].chan].st # "open" THEN "none"
    ELSE IF result = "ok" THEN "ack"
    ELSE "reject"

\* a processing scope that acks however its block is left
ExitOutcomeAlwaysAck(d, result) ==
    IF chans[dels[d].chan].st # "open" THEN "none"
    ELSE "ack"

\* What message.process(ignore_processed=True, requeue=requeue_on_error) sends
\* when its block is left, consumer.py:61: an ack after a normal exit, a
\* reject carrying the flag after an exception. A channel that is no longer
\* open carries neither to the broker.
ExitOutcome(d, result) ==
    IF chans[dels[d].chan].st # "open" THEN "none"
    ELSE IF result = "ok" THEN "ack"
    ELSE IF requeueOnError THEN "requeue"
    ELSE "reject"

After(m, outcome) ==
    CASE outcome = "ack" -> [m EXCEPT !.loc = "acked"]
      [] outcome = "requeue" -> [m EXCEPT !.loc = "ready"]
      [] outcome = "reject" -> [m EXCEPT !.loc = "dropped"]
      [] OTHER -> m

\* _handle_message leaves the processing scope, consumer.py:61-69
Exit(d, result) ==
    LET outcome == ExitOutcome(d, result) IN
        /\ dels' = [dels EXCEPT ![d] =
                       [@ EXCEPT !.st = "done", !.result = result,
                                 !.outcome = outcome,
                                 !.pending = Cardinality({i \in SendsOf(d) :
                                     sends[i].st \notin {"done", "failed"}})]]
        /\ msgs' = [msgs EXCEPT ![dels[d].m] = After(@, outcome)]

\* a handler that remembers the channels already sent for the message
HandleMessageOnce(d) ==
    /\ dels[d].st = "new"
    /\ LET p == msgs[dels[d].m].p
           sent(c) == \E i \in DOMAIN sends :
                         /\ dels[sends[i].d].m = dels[d].m
                         /\ sends[i].channel = c /\ sends[i].st = "done"
           todo == SelectSeq(Channels(p), LAMBDA c : ~sent(c))
       IN
        IF Decode(p) # "ok"
        THEN Exit(d, Decode(p)) /\ UNCHANGED sends
        ELSE /\ dels' = [dels EXCEPT ![d].st = "dispatching"]
             /\ sends' = sends \o [k \in 1..Len(todo) |->
                            [d |-> d, k |-> k, channel |-> todo[k],
                             st |-> "pending"]]
             /\ UNCHANGED msgs
    /\ UNCHANGED <<idleManager, callers, consumerFields, subs>>
    /\ UNCHANGED <<aside, sem, semQ>>

\* _handle_message up to its first await: decode, validate, and
\* Dispatcher.dispatch up to the gather, which makes one task for each entry
\* of the channel list (consumer.py:59-65, dispatcher.py:17-20)
HandleMessage(d) ==
    /\ dels[d].st = "new"
    /\ LET p == msgs[dels[d].m].p IN
        IF Decode(p) # "ok"
        THEN Exit(d, Decode(p)) /\ UNCHANGED sends
        ELSE /\ dels' = [dels EXCEPT ![d].st = "dispatching"]
             /\ sends' = sends \o [k \in 1..Len(Channels(p)) |->
                            [d |-> d, k |-> k, channel |-> Channels(p)[k],
                             st |-> "pending"]]
             /\ UNCHANGED msgs
    /\ UNCHANGED <<idleManager, callers, consumerFields, subs>>
    /\ UNCHANGED <<aside, sem, semQ>>

\* an acquire that never waits
CanAcquireUnbounded == TRUE

\* asyncio.Semaphore.acquire finds a free permit and nobody queued
CanAcquire == sem > 0 /\ semQ = <<>>

\* _send enters `async with self._semaphore` and, with a permit, runs up to
\* the provider call, dispatcher.py:22-34
SendStart(i) ==
    /\ sends[i].st = "pending"
    /\ IF CanAcquire
       THEN /\ sends' = [sends EXCEPT ![i].st = "running"]
            /\ sem' = sem - 1
            /\ UNCHANGED semQ
       ELSE /\ sends' = [sends EXCEPT ![i].st = "waiting"]
            /\ semQ' = Append(semQ, i)
            /\ UNCHANGED sem
    /\ UNCHANGED <<idleManager, callers, consumerFields, broker>>
    /\ UNCHANGED <<aside, dels>>

\* a release that wakes the waiter who came last
ReleaseToLast(ss) ==
    IF semQ = <<>> THEN [sends |-> ss, sem |-> sem + 1, semQ |-> semQ]
    ELSE [sends |-> [ss EXCEPT ![semQ[Len(semQ)]].st = "running"], sem |-> sem,
          semQ |-> SubSeq(semQ, 1, Len(semQ) - 1)]

\* asyncio.Semaphore.release: the permit goes to the first waiter, or back
Release(ss) ==
    IF semQ = <<>> THEN [sends |-> ss, sem |-> sem + 1, semQ |-> semQ]
    ELSE [sends |-> [ss EXCEPT ![Head(semQ)].st = "running"], sem |-> sem,
          semQ |-> Tail(semQ)]

\* the provider call of a channel returns or raises, and _send leaves the
\* semaphore, dispatcher.py:24-34. The tasks of one gather are made together
\* and each takes its first step before any of them is resumed.
SendFinish(i, ok) ==
    /\ sends[i].st = "running"
    /\ \A j \in SendsOf(sends[i].d) : sends[j].st # "pending"
    /\ LET r == Release([sends EXCEPT ![i].st = IF ok THEN "done" ELSE "failed"]) IN
        /\ sends' = r.sends
        /\ sem' = r.sem
        /\ semQ' = r.semQ
    /\ UNCHANGED <<idleManager, callers, consumerFields, broker>>
    /\ UNCHANGED <<aside, dels>>

\* asyncio.gather without return_exceptions, dispatcher.py:20: its awaiter is
\* resumed when every task has returned, or as soon as one has raised
GatherReady(d) ==
    \/ \E i \in SendsOf(d) : sends[i].st = "failed"
    \/ \A i \in SendsOf(d) : sends[i].st = "done"

\* a gather that reports success unless every task raised
GatherResultLenient(d) ==
    IF \A i \in SendsOf(d) : sends[i].st = "failed" THEN "send_failed" ELSE "ok"

GatherResult(d) ==
    IF \E i \in SendsOf(d) : sends[i].st = "failed" THEN "send_failed" ELSE "ok"

\* dispatch returns or raises into _handle_message, which leaves the scope
DispatchReturns(d) ==
    /\ dels[d].st = "dispatching"
    /\ GatherReady(d)
    /\ Exit(d, GatherResult(d))
    /\ UNCHANGED <<idleManager, callers, consumerFields, subs>>
    /\ UNCHANGED <<aside, sends, sem, semQ>>

\* lifespan enters: consumer.start() up to its first await, main.py:19-23
\* and consumer.py:34-39
LifespanStart ==
    /\ op["t1"].name = "none"
    /\ Idle("t1")
    /\ op' = [op EXCEPT !["t1"] = [name |-> "lifespan", n |-> 0]]
    /\ Goes("t1", IF started THEN Ret(<<Fr("lifespan", "ls_start", 0, 0)>>, 0)
                  ELSE CallGetQueue(<<Fr("start", "st_get_queue", 0, 0),
                                      Fr("lifespan", "ls_start", 0, 0)>>))
    /\ UNCHANGED <<mgrFields, objects, published, closingIsClosed, opsLeft,
                   lossLeft, dirty, broker, handling>>

\* queue.consume() answered: start() stores the tag, sets _started and
\* returns, consumer.py:41-43
ConsumeOk(t) ==
    /\ At(t, "st_consume")
    /\ IF ChanOpen(queues[Top(t).h].chan)
       THEN /\ subs' = subs \cup {[tag |-> Cardinality(subs) + 1,
                                   chan |-> queues[Top(t).h].chan,
                                   noAck |-> FALSE]}
            /\ consumerTag' = Cardinality(subs) + 1
            /\ started' = TRUE
            /\ Runs(t, Ret(Rest(t), 0))
            /\ UNCHANGED consumerQueue
       ELSE /\ Goes(t, Raise)
            /\ UNCHANGED subs
    /\ UNCHANGED <<mgrFields, objects, published, quiet, msgs, handling>>

\* the steps of the manager that starting up takes
StartupStep(t) ==
    \/ ConnectDone(t)
    \/ ChannelOpened(t)
    \/ QosDone(t)
    \/ ExchangeDeclared(t)
    \/ QueueDeclared(t)
    \/ QueueBound(t)

Init ==
    /\ InitCommon
    /\ closingIsClosed = [set |-> FALSE, conn |-> FALSE, chan |-> FALSE]
    /\ requeueOnError \in BOOLEAN
    /\ http = [t \in Tasks |-> NoRequest]
    /\ prefetchCount = PrefetchCount
    /\ engine = NotificationRuleEngine(NoTable)

\* the running service: it starts up, and messages are consumed
Next ==
    \/ LifespanStart
    \/ \E t \in Tasks : StartupStep(t)
    \/ \E t \in Tasks : ConsumeOk(t)
    \/ \E p \in Payloads : Enqueue(p)
    \/ \E m \in DOMAIN msgs : Deliver(m)
    \/ \E d \in DOMAIN dels : HandleMessage(d)
    \/ \E i \in DOMAIN sends : SendStart(i)
    \/ \E i \in DOMAIN sends, ok \in BOOLEAN : SendFinish(i, ok)
    \/ \E d \in DOMAIN dels : DispatchReturns(d)

Spec == Init /\ [][Next]_vars

\* ------------------------------------------------------------ shutdown
\* lifespan leaves: gather makes one task for consumer.stop() and one for
\* publisher.close(), main.py:29-32
Shutdown ==
    /\ At("t1", "ls_serving")
    /\ Idle("t2") /\ Idle("t3")
    /\ stk' = [stk EXCEPT !["t1"] = <<Fr("lifespan", "ls_gather", 0, 0)>>,
                          !["t2"] = <<Fr("stop", "sp_entry", 0, 0)>>,
                          !["t3"] = <<Fr("pub_close", "pc_entry", 0, 0)>>]
    /\ op' = [op EXCEPT !["t2"] = [name |-> "stop", n |-> 0],
                        !["t3"] = [name |-> "pub_close", n |-> 0]]
    /\ UNCHANGED <<mgrFields, objects, lockQ, published, closingIsClosed, out,
                   opsLeft, lossLeft, dirty, consumerFields, broker, handling>>

\* a stop() that closes the manager without cancelling the subscription
StopBeginNoCancel(t) ==
    /\ At(t, "sp_entry")
    /\ IF ~started
       THEN /\ Goes(t, Ret(Rest(t), 0))
            /\ UNCHANGED <<channel, queue, conns, chans, closingIsClosed>>
       ELSE CloseEnter(t, <<Fr("stop", "sp_close", 0, 0)>> \o Rest(t))
    /\ UNCHANGED <<connection, exchange, exchs, queues>>
    /\ UNCHANGED <<counters, published, broker, handling>>

\* consumer.stop() up to its first await, consumer.py:45-54
StopBegin(t) ==
    /\ At(t, "sp_entry")
    /\ IF ~started
       THEN /\ Goes(t, Ret(Rest(t), 0))
            /\ UNCHANGED <<channel, queue, conns, chans, closingIsClosed>>
       ELSE IF consumerQueue # 0 /\ consumerTag # 0
       THEN /\ Goes(t, Susp(<<Fr("stop", "sp_cancel", consumerQueue, consumerTag)>>
                              \o Rest(t)))
            /\ UNCHANGED <<channel, queue, conns, chans, closingIsClosed>>
       ELSE CloseEnter(t, <<Fr("stop", "sp_close", 0, 0)>> \o Rest(t))
    /\ UNCHANGED <<connection, exchange, exchs, queues>>
    /\ UNCHANGED <<counters, published, broker, handling>>

\* queue.cancel() answered, and stop() goes on into the manager's close(),
\* consumer.py:51-54. On a closed channel the call raises; on a channel that
\* close() is closing it may do either.
CancelOk(t) ==
    /\ At(t, "sp_cancel")
    /\ \E ok \in BOOLEAN :
        /\ ok => chans[queues[Top(t).h].chan].st \in {"open", "closing"}
        /\ ~ok => chans[queues[Top(t).h].chan].st \in {"closing", "closed"}
        /\ IF ok
           THEN /\ subs' = {x \in subs : x.tag # Top(t).h2}
                /\ CloseEnter(t, <<Fr("stop", "sp_close", 0, 0)>> \o Rest(t))
           ELSE /\ Goes(t, Raise)
                /\ UNCHANGED <<subs, channel, queue, conns, chans, closingIsClosed>>
    /\ UNCHANGED <<connection, exchange, exchs, queues>>
    /\ UNCHANGED <<counters, published, msgs, handling>>

\* publisher.close() is the manager's close(), publisher.py:31-33; its task
\* was made after the one of stop() and first runs after it, main.py:29-32
PubCloseBegin(t) ==
    /\ At(t, "pc_entry")
    /\ \A u \in Tasks : ~At(u, "sp_entry")
    /\ CloseEnter(t, <<Fr("pub_close", "pc_close", 0, 0)>> \o Rest(t))
    /\ UNCHANGED <<connection, exchange, exchs, queues>>
    /\ UNCHANGED <<counters, published, broker, handling>>

\* the gather of lifespan is over: both calls returned, or one raised
LifespanEnds ==
    /\ At("t1", "ls_gather")
    /\ \/ Idle("t2") /\ Idle("t3")
       \/ \E t \in {"t2", "t3"} : Idle(t) /\ out[t].kind = "raise"
    /\ Runs("t1", IF \E t \in {"t2", "t3"} : Idle(t) /\ out[t].kind = "raise"
                  THEN Raise ELSE Ret(<<>>, 0))
    /\ UNCHANGED <<mgrFields, objects, published, quiet, consumerFields,
                   broker, handling>>

\* the permits that sends ss give back go to the first waiters of q
RECURSIVE Handoff(_, _, _)
Handoff(ss, q, n) ==
    IF n = 0 \/ q = <<>> THEN [sends |-> ss, sem |-> sem + n, semQ |-> q]
    ELSE Handoff([ss EXCEPT ![Head(q)].st = "running"], Tail(q), n - 1)

Live(d) == {i \in SendsOf(d) : sends[i].st \in {"pending", "waiting", "running"}}

\* The library may cancel the handlers of a channel when the channel closes.
\* The CancelledError leaves the gather, which cancels the sends still under
\* way (dispatcher.py:20, 24), and then the processing scope (consumer.py:61).
HandlerCancelled(d) ==
    /\ dels[d].st \in {"new", "dispatching"}
    /\ chans[dels[d].chan].st = "closed"
    /\ LET r == Handoff([i \in DOMAIN sends |->
                            IF i \in Live(d) THEN [sends[i] EXCEPT !.st = "cancelled"]
                            ELSE sends[i]],
                        SelectSeq(semQ, LAMBDA i : i \notin Live(d)),
                        Cardinality({i \in Live(d) : sends[i].st = "running"})) IN
        /\ sends' = r.sends
        /\ sem' = r.sem
        /\ semQ' = r.semQ
        /\ dels' = [dels EXCEPT ![d] =
                       [@ EXCEPT !.st = "done", !.result = "cancelled",
                                 !.outcome = ExitOutcome(d, "cancelled")]]
    /\ UNCHANGED <<idleManager, callers, consumerFields, broker, aside>>

\* the service from start to shutdown, with fewer messages on the way
NextShutdown ==
    \/ LifespanStart
    \/ \E t \in Tasks : StartupStep(t)
    \/ \E t \in Tasks : ConsumeOk(t)
    \/ \E p \in Payloads : Len(msgs) < MaxShutdownMsgs /\ Enqueue(p)
    \/ \E m \in DOMAIN msgs : Len(dels) < MaxShutdownDeliveries /\ Deliver(m)
    \/ \E d \in DOMAIN dels : HandleMessage(d)
    \/ \E i \in DOMAIN sends : SendStart(i)
    \/ \E i \in DOMAIN sends, ok \in BOOLEAN : SendFinish(i, ok)
    \/ \E d \in DOMAIN dels : DispatchReturns(d)
    \/ Shutdown
    \/ \E t \in Tasks : StopBegin(t)
    \/ \E t \in Tasks : CancelOk(t)
    \/ \E t \in Tasks : PubCloseBegin(t)
    \/ \E t \in Tasks : ChannelClosed(t)
    \/ \E t \in Tasks : ConnectionClosed(t)
    \/ \E d \in DOMAIN dels : HandlerCancelled(d)
    \/ LifespanEnds

SpecShutdown == Init /\ [][NextShutdown]_vars

\* ------------------------------------------------------------ claims
\* nothing has been closed or lost yet
Undisturbed ==
    /\ \A c \in DOMAIN conns : conns[c] = "open"
    /\ \A ch \in DOMAIN chans : chans[ch].st = "open"

SameHandles ==
    \A t, u \in Tasks :
        (op[t].name = op[u].name /\ out[t].kind = "ret" /\ out[u].kind = "ret"
         /\ op[t].name \in {"get_channel", "get_exchange", "get_queue"}
         /\ Idle(t) /\ Idle(u))
        => out[t].val = out[u].val

\* C7: concurrent first callers of an uninitialised manager open at most one
\* channel, declare the exchange at most once, declare and bind the queue at
\* most once, and all receive the same handles.
C7_SingleTopology ==
    Undisturbed =>
        /\ Len(chans) <= 1
        /\ Len(exchs) <= 1
        /\ Len(queues) <= 1
        /\ \A q \in DOMAIN queues : queues[q].binds <= 1
        /\ SameHandles

\* the operation of task t returns in this step
ReturnsNow(t) ==
    /\ stk'[t] = <<>>
    /\ out'[t].kind = "ret"
    /\ stk[t] # <<>> \/ op'[t] # op[t]

\* a handle is live in the state (cs, chs, es, qs) of the broker objects
ChanLive(cs, chs, ch) == ch # 0 /\ chs[ch].st = "open" /\ cs[chs[ch].conn] = "open"

HandleLive(cs, chs, es, qs, name, v) ==
    CASE name = "connect" -> v # 0 /\ cs[v] = "open"
      [] name = "get_channel" -> ChanLive(cs, chs, v)
      [] name = "get_exchange" -> v # 0 /\ ChanLive(cs, chs, es[v])
      [] name = "get_queue" -> v # 0 /\ ChanLive(cs, chs, qs[v].chan)
      [] OTHER -> TRUE

NoCloseInProgress ==
    \A u \in Tasks : \A i \in 1..Len(stk[u]) : stk[u][i].fn # "close"

NothingLost == \A c \in DOMAIN conns : conns[c] # "lost"

\* C8: once close() has run, every handle that connect(), get_channel(),
\* get_exchange() or get_queue() returns belongs, when it is returned, to an
\* open channel on an open connection, and publish() does not fail while the
\* manager holds an open channel.  (The claim says the same after an
\* unexpected closure; the case of close() alone is stated here.)
C8_NoStaleHandle ==
    [][(NoCloseInProgress /\ NothingLost) =>
        \A t \in Tasks :
          /\ ReturnsNow(t) => HandleLive(conns', chans', exchs', queues',
                                        op'[t].name, out'[t].val)
          /\ (op'[t].name = "publish" /\ out'[t].kind = "raise"
              /\ out[t].kind # "raise")
             => ~ChanOpen(channel)]_vars

\* C9: concurrent close() calls never fail, never begin closing the connection
\* while the channel's close is still in progress, and leave both closed once
\* all of them have returned.
C9_CloseOrdered ==
    ~dirty =>
        /\ \A t \in Tasks : op[t].name = "close" => out[t].kind # "raise"
        /\ \A ch \in DOMAIN chans :
              chans[ch].st = "closing" => conns[chans[ch].conn] # "closing"
        /\ (\A t \in Tasks : Idle(t))
              => /\ \A c \in DOMAIN conns : conns[c] \in {"closed", "lost"}
                 /\ \A ch \in DOMAIN chans : chans[ch].st = "closed"

\* C10: the manager never holds a channel that is not closed while it has
\* closed or forgotten the channel's connection, and never forgets a
\* connection that is still open.
C10_ChannelUnderLock ==
    /\ (channel # 0 /\ chans[channel].st # "closed") =>
          /\ chans[channel].conn = connection
          /\ conns[connection] = "open"
    /\ \A c \in DOMAIN conns : conns[c] = "open" => connection = c

\* ------------------------------------------------- claims on the consumer
Payload(d) == msgs[dels[d].m].p

\* C1: every delivery the handler has finished with received exactly one
\* terminal outcome: an ack when decoding, validation and dispatch all
\* succeeded, a negative acknowledgment otherwise, and never neither.
C1_OneOutcome ==
    \A d \in DOMAIN dels :
        dels[d].st = "done" =>
            /\ dels[d].result = "ok" => dels[d].outcome = "ack"
            /\ dels[d].result # "ok" => dels[d].outcome \in {"requeue", "reject"}

TwoChannelFailure(d) ==
    /\ dels[d].st = "done"
    /\ Decode(Payload(d)) = "ok"
    /\ Len(Channels(Payload(d))) = 2
    /\ \E i \in SendsOf(d) : sends[i].st = "failed"

\* C2: with requeue_on_error at its default, true, a delivery of a
\* two-channel message one of whose sends failed ends with dispatch failed
\* and a negative acknowledgment that requeues, never an ack or a discard.
C2_PartialFailureRequeued ==
    \A d \in DOMAIN dels :
        (requeueOnError /\ TwoChannelFailure(d)) =>
            dels[d].result = "send_failed" /\ dels[d].outcome = "requeue"

C2_Witness ==
    \E d \in DOMAIN dels :
        /\ requeueOnError /\ TwoChannelFailure(d)
        /\ \E i \in SendsOf(d) : sends[i].st = "done"
        /\ dels[d].outcome = "requeue"
        /\ msgs[dels[d].m].loc = "ready"

\* C3: a delivery whose payload is not JSON or fails schema validation is
\* rejected without requeue whatever the flag, and no send is made for it.
C3_MalformedRejected ==
    \A d \in DOMAIN dels :
        (dels[d].st = "done" /\ Decode(Payload(d)) # "ok") =>
            dels[d].outcome = "reject" /\ SendsOf(d) = {}

Dispatched(d) == dels[d].st = "dispatching" \/ dels[d].result \in {"ok", "send_failed"}

C5_DispatchWaitsForAll ==
    \A d \in DOMAIN dels : dels[d].pending = 0

Running == {i \in DOMAIN sends : sends[i].st = "running"}

\* C6: the sends executing inside the dispatcher, over all the notifications
\* being dispatched, never number more than the configured concurrency.
C6_ConcurrencyLimit == Cardinality(Running) <= WorkerConcurrency

C6_Witness ==
    /\ Cardinality(Running) = WorkerConcurrency
    /\ \E i, j \in Running : sends[i].d # sends[j].d
    /\ \E i \in DOMAIN sends : sends[i].st = "waiting"

\* ------------------------------------------------- claims on the consumer's
\* life cycle
\* stop() is inside the manager's close(), consumer.py:54
StopClosing ==
    \E t \in Tasks : \E i, j \in 1..Len(stk[t]) :
        i < j /\ stk[t][i].fn = "close" /\ stk[t][j].fn = "stop"

\* C11: while stop() is closing the manager's channel and connection, no
\* delivery is still being handled: every handler that began has left its
\* processing scope before stop() starts to close.
C11_StopWaitsForHandlers ==
    StopClosing => \A d \in DOMAIN dels : dels[d].st # "dispatching"

\* ---------------------------------------------- the consumer on its own
AllIdle == \A t \in Tasks : Idle(t)

\* a caller awaits consumer.start() when no other call is under way,
\* consumer.py:34-39
InvokeStart(t) ==
    /\ AllIdle
    /\ Begins(t, "start")
    /\ Goes(t, IF started THEN Ret(<<>>, 0)
               ELSE CallGetQueue(<<Fr("start", "st_get_queue", 0, 0)>>))
    /\ UNCHANGED <<mgrFields, objects, closingIsClosed>>

\* a caller awaits consumer.stop() when no other call is under way; the call
\* then runs as StopBegin, consumer.py:45
InvokeStop(t) ==
    /\ AllIdle
    /\ Begins(t, "stop")
    /\ Runs(t, Susp(<<Fr("stop", "sp_entry", 0, 0)>>))
    /\ UNCHANGED <<mgrFields, objects, closingIsClosed, consumerFields>>

NextConsumer ==
    \/ \E t \in Tasks : InvokeStart(t)
    \/ \E t \in Tasks : InvokeStop(t)
    \/ \E t \in Tasks : StartupStep(t)
    \/ \E t \in Tasks : ConsumeOk(t)
    \/ \E t \in Tasks : StopBegin(t)
    \/ \E t \in Tasks : CancelOk(t)
    \/ \E t \in Tasks : ChannelClosed(t)
    \/ \E t \in Tasks : ConnectionClosed(t)

SpecConsumer == InitConn /\ [][NextConsumer]_vars

\* where the consumer is in its life cycle, from _started and the calls of
\* start() and stop() under way
InCall(ss, fn, pcs) ==
    \E t \in Tasks : \E i \in 1..Len(ss[t]) : ss[t][i].fn = fn /\ ss[t][i].pc \in pcs

ConsumerState(st, ss) ==
    IF st THEN IF InCall(ss, "stop", {"sp_cancel", "sp_close"})
               THEN "stopping" ELSE "running"
    ELSE IF InCall(ss, "start", {"st_get_queue", "st_consume"})
         THEN "starting" ELSE "stopped"

LifeCycle ==
    {<<"stopped", "starting">>, <<"starting", "running">>,
     <<"running", "stopping">>, <<"stopping", "stopped">>}

Untouched == UNCHANGED <<subs, consumerFields, mgrFields, objects>>

Requests ==
    [event_type : EventTypes,
     channels : OptLists(DeliveryChannels, MaxChannels),
     recipient_roles : OptLists(RoleTypes, MaxRoles),
     metadata : {"plain"}]

Prepared(h, p) ==
    [request |-> h.request, step |-> "prepared", err |-> p.err,
     message |-> p.message, channels |-> p.channels,
     recipient_roles |-> p.recipient_roles]

allButHttp ==
    <<mgrFields, objects, lockQ, closingIsClosed, callers, opsLeft, lossLeft,
      published, dirty, consumerFields, requeueOnError, prefetchCount, engine,
      broker, dels, sends, sem, semQ>>

\* orchestrator.prepare_message(request), on its own
PrepareMessage(t) ==
    /\ http[t].step = "request"
    /\ http' = [http EXCEPT ![t] = Prepared(@, prepare_message(@.request))]
    /\ UNCHANGED allButHttp

InitPolicy ==
    /\ InitCommon
    /\ closingIsClosed = [set |-> FALSE, conn |-> FALSE, chan |-> FALSE]
    /\ requeueOnError = TRUE
    /\ prefetchCount = PrefetchCount
    /\ engine = NotificationRuleEngine(NoTable)
    /\ \E r \in Requests :
         http = [t \in Tasks |->
                   IF t = "t1"
                   THEN [NoRequest EXCEPT !.request = r, !.step = "request"]
                   ELSE NoRequest]

NextPolicy == \E t \in Tasks : PrepareMessage(t)

SpecPolicy == InitPolicy /\ [][NextPolicy]_vars

\* ------------------------------------------------------------ claims C15 to C18
\* r is s without its repetitions, each element where s first has it
FirstAt(s, x) == CHOOSE i \in 1..Len(s) : s[i] = x /\ \A k \in 1..(i - 1) : s[k] # x
FirstSeen(s, r) ==
    /\ \A x \in DeliveryChannels \cup RoleTypes : Has(r, x) <=> Has(s, x)
    /\ \A i, j \in 1..Len(r) : i < j => r[i] # r[j] /\ FirstAt(s, r[i]) < FirstAt(s, r[j])

PreparedTasks == {t \in Tasks : http[t].step = "prepared"}

\* C15: for a request with explicit non-empty channels, resolve_channels
\* returns those channels with the repetitions removed, in first-seen order,
\* whether or not a rule has the request's event_type; 'profile.viewed' with
\* channels [sms] gives [sms]
C15_ExplicitChannelsWin ==
    \A t \in PreparedTasks :
        LET request == http[t].request
        IN  Truthy(request.channels) =>
              /\ FirstSeen(request.channels.v, http[t].channels)
              /\ (request.event_type = "profile.viewed"
                    /\ request.channels.v = <<"sms">>) => http[t].channels = <<"sms">>

C15_Witness ==
    \E t \in PreparedTasks :
        /\ http[t].request.event_type = "profile.viewed"
        /\ http[t].request.channels = Some(<<"sms", "email", "sms">>)
        /\ http[t].channels = <<"sms", "email">>

\* C16: for a request with no channels (absent or empty) whose event_type is
\* a key of the rule table, resolve_channels returns that rule's
\* default_channels as they are; an event_type that differs from a key in
\* case, or is a prefix or an extension of one, gets no rule
C16_RuleDefaultChannels ==
    \A t \in PreparedTasks :
        LET request == http[t].request
        IN  ~Truthy(request.channels) =>
              /\ request.event_type \in DOMAIN Rules =>
                    http[t].channels = Rules[request.event_type].default_channels
              /\ request.event_type = "credential.issued" =>
                    http[t].channels = <<"email", "in_app">>
              /\ request.event_type \in {"Credential.Issued", "credential",
                                         "credential.issued.v2"} =>
                    http[t].channels # Rules["credential.issued"].default_channels

C16_Witness ==
    \E t \in PreparedTasks :
        /\ http[t].request.event_type = "Credential.Issued"
        /\ http[t].request.channels = Some(<<>>)
        /\ http[t].channels = <<"in_app">>

\* C17: for a request with no channels (absent or empty) whose event_type no
\* rule has, resolve_channels returns the single channel in_app; the result
\* of resolve_channels is never empty
C17_FallbackChannel ==
    \A t \in PreparedTasks :
        LET request == http[t].request
        IN  /\ (~Truthy(request.channels) /\ request.event_type \notin DOMAIN Rules) =>
                  http[t].channels = <<"in_app">>
            /\ http[t].channels # <<>>

C17_Witness ==
    \E t \in PreparedTasks :
        /\ http[t].request.event_type = "unknown.event"
        /\ http[t].request.channels = None
        /\ http[t].channels = <<"in_app">>

\* C18: resolve_recipient_roles returns the explicit non-empty
\* recipient_roles without repetitions in first-seen order whatever the rules
\* say, otherwise the target_roles of the rule whose key is the event_type,
\* otherwise the empty list, as a value
C18_RoleResolution ==
    \A t \in PreparedTasks :
        LET request == http[t].request
            roles == http[t].recipient_roles
        IN  IF Truthy(request.recipient_roles)
            THEN FirstSeen(request.recipient_roles.v, roles)
            ELSE IF request.event_type \in DOMAIN Rules
            THEN roles = Rules[request.event_type].target_roles
            ELSE roles = <<>>

C18_Witness ==
    \E t \in PreparedTasks :
        /\ http[t].request.event_type = "credential.issued"
        /\ http[t].request.recipient_roles = Some(<<"employer", "employer">>)
        /\ http[t].recipient_roles = <<"employer">>

\* ------------------------------------------------------------ the API
\* the requests the endpoint is given: with and without a rule, with and
\* without explicit values, with metadata that can and cannot be serialised
Request(event_type, channels, recipient_roles, metadata) ==
    [event_type |-> event_type, channels |-> channels,
     recipient_roles |-> recipient_roles, metadata |-> metadata]

ServedRequests ==
    {Request("unknown.event", None, None, "plain"),
     Request("unknown.event", None, Some(<<>>), "plain"),
     Request("unknown.event", None, Some(<<"issuer">>), "plain"),
     Request("credential.issued", None, None, "plain"),
     Request("profile.viewed", Some(<<"sms">>), None, "plain"),
     Request("credential.issued", None, None, "unserialisable")}

\* the exception classes message.model_dump_json().encode() can raise
\* (publisher.py:41): pydantic's serialisation error and UnicodeEncodeError
\* are ValueErrors; "error" stands for any other class
SerializationErrors == {"value_error", "error"}

\* enqueue_notification up to its first await: prepare_message, then
\* publisher.publish as far as it goes, notifications.py:28-30
RequestArrives(t, request, cls) ==
    /\ t # "t1"
    /\ At("t1", "ls_serving")
    /\ Idle(t)
    /\ opsLeft > 0
    /\ opsLeft' = opsLeft - 1
    /\ op' = [op EXCEPT ![t] = [name |-> "enqueue_notification",
                                n |-> MaxOps - opsLeft + 1]]
    /\ LET p == prepare_message(request)
           made == Prepared([request |-> request], p)
       IN  IF p.err # "none"
           THEN /\ http' = [http EXCEPT ![t] = [made EXCEPT !.step = "prepare"]]
                /\ Goes(t, Raise)
           ELSE IF request.metadata = "unserialisable"
           THEN /\ http' = [http EXCEPT ![t] =
                              [made EXCEPT !.step = "publish", !.err = cls]]
                /\ Goes(t, Raise)
           ELSE /\ http' = [http EXCEPT ![t] = [made EXCEPT !.step = "publish"]]
                /\ Goes(t, CallPublish(<<Fr("pub_publish", "pp_publish", 0, 0),
                                         Fr("enqueue_notification", "en_publish", 0, 0)>>))
    /\ UNCHANGED <<mgrFields, objects, closingIsClosed, lossLeft, published,
                   dirty, broker, requeueOnError, prefetchCount, engine, dels,
                   sends, sem, semQ>>

\* what the caller of the endpoint gets, notifications.py:31-41
Response(t) ==
    IF op[t].name # "enqueue_notification" \/ ~Idle(t) THEN "none"
    ELSE IF out[t].kind = "ret" THEN "accepted"
    ELSE IF http[t].err = "value_error" THEN "client_error"
    ELSE "server_error"

\* the service serving requests: it starts up, requests arrive, the
\* connection may be lost
NextApi ==
    \/ LifespanStart
    \/ \E t \in Tasks : StartupStep(t)
    \/ \E t \in Tasks : ConsumeOk(t)
    \/ \E t \in Tasks, request \in ServedRequests, cls \in SerializationErrors :
          RequestArrives(t, request, cls)
    \/ \E t \in Tasks : Published(t)
    \/ ConnectionLost

SpecApi == InitConn /\ [][NextApi]_vars

\* ------------------------------------------------------------ claims C13, C19
Unresolvable(request) ==
    ~Truthy(request.recipient_roles) /\ request.event_type \notin DOMAIN Rules

\* task t goes from the request to its first await, or to its response
Handles(t) == Idle(t) /\ op'[t].name = "enqueue_notification" /\ op'[t] # op[t]

\* C13: for a request without explicit non-empty recipient_roles whose
\* event_type no rule has, prepare_message raises its error before the broker
\* is touched: the handler ends there with the client error, nothing is
\* published for the request and the broker's state is as it was
C13_UnresolvableNotPublished ==
    [][\A t \in Tasks :
          (Handles(t) /\ Unresolvable(http'[t].request)) =>
             /\ http'[t].step = "prepare"
             /\ http'[t].err = "value_error"
             /\ Idle(t)' /\ out'[t].kind = "raise"
             /\ Response(t)' = "client_error"
             /\ UNCHANGED <<published, broker, objects, mgrFields, lockQ>>]_vars

C13_Witness ==
    \E t \in Tasks :
        /\ Response(t) = "client_error"
        /\ http[t].request.event_type = "unknown.event"
        /\ http[t].request.recipient_roles = None
        /\ http[t].step = "prepare"
        /\ \E u \in Tasks : Response(u) = "accepted"
        /\ published = 1 /\ Len(msgs) = 1

\* C19: every request gets one of three responses: accepted, with the
\* event_type of the message, when prepare_message and publish both succeed;
\* a client error when prepare_message fails; a server error whenever the
\* publish step fails, by serialisation or by the broker
C19_ThreeOutcomes ==
    \A t \in Tasks :
        (op[t].name = "enqueue_notification" /\ Idle(t)) =>
            /\ Response(t) \in {"accepted", "client_error", "server_error"}
            /\ http[t].step = "prepare" => Response(t) = "client_error"
            /\ (http[t].step = "publish" /\ out[t].kind = "ret") =>
                  /\ Response(t) = "accepted"
                  /\ http[t].message.event_type = http[t].request.event_type
            /\ (http[t].step = "publish" /\ out[t].kind = "raise") =>
                  Response(t) = "server_error"

\* ------------------------------------------------------------ claim C14
\* the requests whose message prepare_message has returned
Built == {t \in Tasks : http[t].step \in {"prepared", "publish"} /\ http[t].err # "value_error"
                          /\ http[t].message # NoMessage}

\* C14: no NotificationMessage has empty recipient_roles or empty or absent
\* channels, neither the one prepare_message returns nor the one
\* _handle_message validates from a payload and hands to the dispatcher
C14_NoEmptyMessage ==
    /\ \A t \in Built :
          http[t].message.recipient_roles # <<>> /\ Truthy(http[t].message.channels)
    /\ \A d \in DOMAIN dels :
          Dispatched(d) => Payload(d).roles # <<>> /\ Payload(d).channels # <<>>

\* ------------------------------------------------------------ claim C20
\* the values rabbitmq_prefetch_count can be given: an int with no lower
\* limit, config.py:35; to the broker 0 is no limit at all
PrefetchCounts == 0..PrefetchCount

InitPrefetch ==
    /\ InitCommon
    /\ closingIsClosed = [set |-> FALSE, conn |-> FALSE, chan |-> FALSE]
    /\ requeueOnError = TRUE
    /\ http = [t \in Tasks |-> NoRequest]
    /\ prefetchCount \in PrefetchCounts
    /\ engine = NotificationRuleEngine(NoTable)

\* the running service under any prefetch setting
SpecPrefetch == InitPrefetch /\ [][Next]_vars

\* the deliveries handed to _handle_message and not settled yet
Unsettled == {d \in DOMAIN dels : dels[d].st # "done"}

\* C20: the channel gets a prefetch bound of at least 1, and the deliveries
\* handed to this process and neither acked nor nacked are never more than
\* that bound
C20_PrefetchBound ==
    /\ channel # 0 => prefetchCount >= 1
    /\ Cardinality(Unsettled) <= prefetchCount
    /\ \A ch \in DOMAIN chans : Cardinality(Unacked(ch)) <= prefetchCount

\* ------------------------------------------------------------ claim C21
\* the event loop runs every task that can run and the broker delivers
\* what it can deliver
Fairness ==
    /\ WF_vars(LifespanStart)
    /\ WF_vars(\E t \in Tasks : StartupStep(t))
    /\ WF_vars(\E t \in Tasks : ConsumeOk(t))
    /\ WF_vars(\E m \in DOMAIN msgs : Deliver(m))
    /\ WF_vars(\E d \in DOMAIN dels : HandleMessage(d))
    /\ WF_vars(\E i \in DOMAIN sends : SendStart(i))
    /\ WF_vars(\E i \in DOMAIN sends, ok \in BOOLEAN : SendFinish(i, ok))
    /\ WF_vars(\E d \in DOMAIN dels : DispatchReturns(d))

\* the messages the dispatcher can be given: for one channel and for two
FairPayloads ==
    {Json(<<"learner">>, <<"email">>), Json(<<"learner">>, <<"email", "sms">>)}

NextFair ==
    \/ LifespanStart
    \/ \E t \in Tasks : StartupStep(t)
    \/ \E t \in Tasks : ConsumeOk(t)
    \/ \E p \in FairPayloads : Enqueue(p)
    \/ \E m \in DOMAIN msgs : Deliver(m)
    \/ \E d \in DOMAIN dels : HandleMessage(d)
    \/ \E i \in DOMAIN sends : SendStart(i)
    \/ \E i \in DOMAIN sends, ok \in BOOLEAN : SendFinish(i, ok)
    \/ \E d \in DOMAIN dels : DispatchReturns(d)

SpecFair == InitConn /\ [][NextFair]_vars /\ Fairness

WellFormed(m) == m \in DOMAIN msgs /\ Decode(msgs[m].p) = "ok"
DeliveriesOf(m) == {d \in DOMAIN dels : dels[d].m = m}

\* no further delivery is made once MaxDeliveries have been; the senders
\* have kept failing for as long as the model follows the message when by
\* then every delivery of it has failed
Exhausted(m) ==
    /\ Len(dels) = MaxDeliveries
    /\ \A d \in DeliveriesOf(m) : dels[d].st = "done" /\ dels[d].result # "ok"

Waiting(i) == i \in DOMAIN sends /\ sends[i].st = "waiting"

ChannelSet(p) == {Channels(p)[k] : k \in 1..Len(Channels(p))}

InvokeStartAgain(t) ==
    /\ \A u \in Tasks : Idle(u) \/ op[u].name = "start"
    /\ Begins(t, "start")
    /\ Goes(t, IF started THEN Ret(<<>>, 0)
               ELSE CallGetQueue(<<Fr("start", "st_get_queue", 0, 0)>>))
    /\ UNCHANGED <<mgrFields, objects, closingIsClosed>>

NextOverlap ==
    \/ \E t \in Tasks : InvokeStartAgain(t)
    \/ \E t \in Tasks : InvokeStop(t)
    \/ \E t \in Tasks : StartupStep(t)
    \/ \E t \in Tasks : LockAcquired(t)
    \/ \E t \in Tasks : ConsumeOk(t)
    \/ \E t \in Tasks : StopBegin(t)
    \/ \E t \in Tasks : CancelOk(t)
    \/ \E t \in Tasks : ChannelClosed(t)
    \/ \E t \in Tasks : ConnectionClosed(t)

SpecOverlap == InitConn /\ [][NextOverlap]_vars

\* C24: calls of start() that overlap register at most one subscription:
\* the queue never has more than one, and stop() has cancelled every
\* subscription by the time it goes on to close the connection
C24_OneSubscription ==
    /\ Cardinality(subs) <= 1
    /\ InCall(stk, "stop", {"sp_close"}) => subs = {}

\* ------------------------------------------------------------ claim C25
\* tables an engine can be constructed with: none, the empty one, one of its
\* own, the built-in one passed explicitly
EmptyTable == [e \in {} |-> Rules["profile.viewed"]]
CustomTable ==
    [e \in {"custom.event", "profile.viewed"} |->
        [default_channels |-> <<"push">>, target_roles |-> <<"employer">>]]
InjectedTables == {NoTable, Some(EmptyTable), Some(CustomTable), Some(Rules)}

InjectedRequests ==
    [event_type : EventTypes \cup {"custom.event"},
     channels : {None, Some(<<>>), Some(<<"sms">>)},
     recipient_roles : {None, Some(<<>>), Some(<<"issuer">>)},
     metadata : {"plain"}]

InitInjected ==
    /\ InitCommon
    /\ closingIsClosed = [set |-> FALSE, conn |-> FALSE, chan |-> FALSE]
    /\ requeueOnError = TRUE
    /\ prefetchCount = PrefetchCount
    /\ \E given \in InjectedTables : engine = NotificationRuleEngine(given)
    /\ \E r \in InjectedRequests :
         http = [t \in Tasks |->
                   IF t = "t1"
                   THEN [NoRequest EXCEPT !.request = r, !.step = "request"]
                   ELSE NoRequest]

\* prepare_message with an engine constructed on any table
SpecInjected == InitInjected /\ [][NextPolicy]_vars

\* C25: an engine constructed with a table resolves with that table alone:
\* an event_type the table has resolves to its rule, and one it does not
\* have resolves to the fallbacks, [in_app] and no roles, whatever the
\* built-in table says, the empty table included
C25_InjectedTableOnly ==
    \A t \in PreparedTasks :
        LET request == http[t].request
            table == engine.given.v
            e == request.event_type
        IN  engine.given.some =>
              /\ ~Truthy(request.channels) =>
                    http[t].channels = IF e \in DOMAIN table
                                       THEN table[e].default_channels
                                       ELSE <<"in_app">>
              /\ ~Truthy(request.recipient_roles) =>
                    http[t].recipient_roles = IF e \in DOMAIN table
                                              THEN table[e].target_roles
                                              ELSE <<>>

====
